---- MODULE Spec2Model ----
(***************************************************************************)
(* mailthon.postman: the Postman class.  A Postman holds a server address, *)
(* a port and an ordered list of middlewares.  send_many opens one         *)
(* connection (transport(server, port); ehlo; every middleware), delivers  *)
(* each envelope over it (sendmail, then noop) and quits the connection in *)
(* a finally block.  The transport, the middlewares and the envelopes are  *)
(* external: every call into them either returns or raises.                *)
(*                                                                         *)
(* Each caller thread performs one send / send_many call; the steps of the *)
(* calls interleave at the calls into the transport and the middlewares.   *)
(* Spec has one caller (thread 1; the other thread is absent), and use may *)
(* be called at any moment, also while the call is running.                *)
(* SpecConc has two callers whose steps interleave, and no use.            *)
(* Every transport handle keeps the log of the operations invoked on it.   *)
(***************************************************************************)
EXTENDS Integers, Sequences, FiniteSets, TLC

\* ---- bounds of the model ----
MaxMw == 2          \* longest middleware list
MaxBatch == 2       \* longest envelope sequence given to send_many

Threads == {1, 2}   \* caller threads, one top-level call each

\* ---- inputs ----
Mw == {"tls", "auth"}                       \* middleware values
Env1 == [sender |-> "a@x.com", receivers |-> <<"b@y.com">>, body |-> "m1"]
Env2 == [sender |-> "c@x.com", receivers |-> <<"b@y.com", "d@y.com">>, body |-> "m2"]
Envelopes == {Env1, Env2}
NoopReplies == {<<250, "Ok">>, <<421, "Closing">>}   \* what conn.noop() may return

NoConn == 0
NoExc == "none"
NoMiddleware == "none"
NoResult == [ok |-> FALSE]
NoRejected == [a \in {} |-> <<550, "refused">>]

VARIABLES
  server, port, middlewares,   \* the Postman's fields
  use_call,                    \* the last call of use: its argument and what it returned
  uses,                        \* how many times use was called
  transport,                   \* transport[h]: log of the operations on handle h
  connects,                    \* connects[t]: calls of self.transport(...) made by t
  pc,                          \* pc[t]: where thread t's call stands
  mode,                        \* mode[t]: "send" or "send_many"
  envelopes,                   \* envelopes[t]: the argument of send_many
  conn,                        \* conn[t]: the handle bound in connection()
  mwi,                         \* mwi[t]: position of `for item in self.middlewares`
  resps,                       \* resps[t]: the list the comprehension has built
  rejected,                    \* rejected[t]: local of deliver
  exc,                         \* exc[t]: the exception in flight / raised to the caller
  context,                     \* context[t]: __context__ of exc[t]
  result                       \* result[t]: the value returned to the caller

vars == <<server, port, middlewares, use_call, uses, transport, connects, pc, mode, envelopes,
          conn, mwi, resps, rejected, exc, context, result>>

agent == <<server, port, middlewares, use_call, uses>>
locals == <<mode, envelopes, conn, mwi, resps, rejected, exc, context, result>>

\* ---- helpers ----
SeqsUpTo(S, n) == UNION {[1..k -> S] : k \in 0..n}

Range(s) == {s[i] : i \in DOMAIN s}

\* one logged operation on a handle: its name, its arguments, whether it
\* returned (ok) or raised, and the value it returned
Ev(op, args, ok, ret) == [op |-> op, args |-> args, ok |-> ok, ret |-> ret]

Log(h, e) == [transport EXCEPT ![h] = Append(@, e)]

\* envelope.to_string(): the encoded message
to_string(e) == <<"MIME", e.sender, e.receivers, e.body>>

\* what the transport's sendmail may return for the given receivers: a
\* mapping from refused receivers to the refusal
RejectedChoices(receivers) ==
  {[a \in S |-> <<550, "refused">>] : S \in SUBSET Range(receivers)}

\* mutant: the refusals are left out of the response
response_cls_dropRejected(status, rej) == [status |-> status, rejected |-> NoRejected]

\* self.response_cls(status, rejected)
response_cls(status, rej) == [status |-> status, rejected |-> rej]

\* ---- Postman.__init__ ----
Init ==
  /\ server = "mail.example.com"
  /\ port = 587
  /\ middlewares \in SeqsUpTo(Mw, MaxMw)
  /\ use_call = [arg |-> NoMiddleware, ret |-> NoMiddleware]
  /\ uses = 0
  /\ transport = <<>>
  /\ connects = [t \in Threads |-> 0]
  /\ pc = [t \in Threads |-> IF t = 1 THEN "idle" ELSE "absent"]
  /\ mode = [t \in Threads |-> "none"]
  /\ envelopes = [t \in Threads |-> <<>>]
  /\ conn = [t \in Threads |-> NoConn]
  /\ mwi = [t \in Threads |-> 0]
  /\ resps = [t \in Threads |-> <<>>]
  /\ rejected = [t \in Threads |-> NoRejected]
  /\ exc = [t \in Threads |-> NoExc]
  /\ context = [t \in Threads |-> NoExc]
  /\ result = [t \in Threads |-> NoResult]

\* mutant: a middleware already in the list is not appended again
appended_dedup(list, middleware) ==
  IF middleware \in Range(list) THEN list ELSE Append(list, middleware)

\* self.middlewares.append(middleware)
appended(list, middleware) == Append(list, middleware)

\* ---- Postman.use ----
use(middleware) ==
  /\ Len(middlewares) < MaxMw
  /\ middlewares' = appended(middlewares, middleware)
  /\ use_call' = [arg |-> middleware, ret |-> middleware]
  /\ uses' = uses + 1
  /\ UNCHANGED <<server, port, transport, connects, pc, locals>>

\* ---- Postman.send_many / Postman.send: entry ----
Enter(t, m, envs) ==
  /\ pc[t] = "idle"
  /\ mode' = [mode EXCEPT ![t] = m]
  /\ envelopes' = [envelopes EXCEPT ![t] = envs]
  /\ pc' = [pc EXCEPT ![t] = "connect"]
  /\ UNCHANGED <<agent, transport, connects, conn, mwi, resps, rejected, exc,
                 context, result>>

\* mutant: an empty sequence answered at once, without a connection
send_many_shortcut(t, envs) ==
  IF envs = <<>>
    THEN /\ pc[t] = "idle"
         /\ mode' = [mode EXCEPT ![t] = "send_many"]
         /\ envelopes' = [envelopes EXCEPT ![t] = envs]
         /\ result' = [result EXCEPT ![t] = [ok |-> TRUE, value |-> <<>>]]
         /\ pc' = [pc EXCEPT ![t] = "returned"]
         /\ UNCHANGED <<agent, transport, connects, conn, mwi, resps, rejected, exc,
                        context>>
    ELSE Enter(t, "send_many", envs)

send_many(t, envs) == Enter(t, "send_many", envs)

\* mutant: the envelope put into the list twice
send_twice(t, envelope) == Enter(t, "send", <<envelope, envelope>>)

\* return self.send_many([envelope])[0]
send(t, envelope) == Enter(t, "send", <<envelope>>)

\* ---- Postman.connection ----
\* mutants: no finally block; the middleware loop placed before the try; a
\* failed delivery skipped instead of raised
Unwind_noFinally(op) == "raised"

Unwind_mwOutsideTry(op) == IF op = "middleware" THEN "raised" ELSE "quit"

Unwind_skipFailed(op) == IF op \in {"sendmail", "noop"} THEN "deliver" ELSE "quit"

\* mutants: a failed ehlo ignored; ehlo placed before the try; a failed ehlo
\* tried again; a failed middleware ignored
Unwind_greetIgnored(op) == IF op = "ehlo" THEN "deliver" ELSE "quit"

Unwind_greetOutsideTry(op) == IF op = "ehlo" THEN "raised" ELSE "quit"

Unwind_retryGreet(op) == IF op = "ehlo" THEN "ehlo" ELSE "quit"

Unwind_mwIgnored(op) == IF op = "middleware" THEN "deliver" ELSE "quit"

\* try: ... finally: conn.quit() -- where an exception raised by `op` inside
\* the try block (or inside the body of the with statement) leads
Unwind(op) == "quit"

\* mutant: the handle kept where every call sees the one opened last
Handle_shared(t) == Len(transport)

\* the handle a call works on: the local `conn` of its own connection() frame
Handle(t) == conn[t]

\* conn = self.transport(self.server, self.port)
connect(t) ==
  /\ pc[t] = "connect"
  /\ connects' = [connects EXCEPT ![t] = @ + 1]
  /\ \/ /\ transport' = Append(transport, <<Ev("connect", <<server, port>>, TRUE, <<>>)>>)
        /\ conn' = [conn EXCEPT ![t] = Len(transport) + 1]
        /\ pc' = [pc EXCEPT ![t] = "ehlo"]
        /\ UNCHANGED exc
     \/ /\ exc' = [exc EXCEPT ![t] = "connect"]
        /\ pc' = [pc EXCEPT ![t] = "raised"]
        /\ UNCHANGED <<transport, conn>>
  /\ UNCHANGED <<agent, mode, envelopes, mwi, resps, rejected, context, result>>

\* conn.ehlo()
ehlo(t) ==
  /\ pc[t] = "ehlo"
  /\ \/ /\ transport' = Log(Handle(t), Ev("ehlo", <<>>, TRUE, <<>>))
        /\ mwi' = [mwi EXCEPT ![t] = 1]
        /\ pc' = [pc EXCEPT ![t] = "middleware"]
        /\ UNCHANGED exc
     \/ /\ transport' = Log(Handle(t), Ev("ehlo", <<>>, FALSE, <<>>))
        /\ exc' = [exc EXCEPT ![t] = "ehlo"]
        /\ pc' = [pc EXCEPT ![t] = Unwind("ehlo")]
        /\ UNCHANGED mwi
  /\ UNCHANGED <<agent, connects, mode, envelopes, conn, resps, rejected,
                 context, result>>

\* mutant: the list walked from its end
NextMiddleware_reversed(t) == Len(middlewares) + 1 - mwi[t]

\* for item in self.middlewares: item(conn)
NextMiddleware(t) == mwi[t]

middleware(t) ==
  /\ pc[t] = "middleware"
  /\ mwi[t] <= Len(middlewares)
  /\ LET item == middlewares[NextMiddleware(t)] IN
     \/ /\ transport' = Log(Handle(t), Ev("middleware", <<item>>, TRUE, <<>>))
        /\ mwi' = [mwi EXCEPT ![t] = @ + 1]
        /\ UNCHANGED <<pc, exc>>
     \/ /\ transport' = Log(Handle(t), Ev("middleware", <<item>>, FALSE, <<>>))
        /\ exc' = [exc EXCEPT ![t] = "middleware"]
        /\ pc' = [pc EXCEPT ![t] = Unwind("middleware")]
        /\ UNCHANGED mwi
  /\ UNCHANGED <<agent, connects, mode, envelopes, conn, resps, rejected,
                 context, result>>

\* yield conn: the list is exhausted, the body of the with statement starts
yield(t) ==
  /\ pc[t] = "middleware"
  /\ mwi[t] > Len(middlewares)
  /\ pc' = [pc EXCEPT ![t] = "deliver"]
  /\ UNCHANGED <<agent, transport, connects, locals>>

\* ---- Postman.send_many: [self.deliver(conn, e) for e in envelopes] ----
\* mutant: the envelopes walked from the end
CurrentEnvelope_reversed(t) == envelopes[t][Len(envelopes[t]) - Len(resps[t])]

\* the envelope the comprehension hands to deliver next
CurrentEnvelope(t) == envelopes[t][Len(resps[t]) + 1]

\* mutant: each response put in front of the earlier ones
Collect_prepend(rs, r) == <<r>> \o rs

\* the comprehension adds deliver's value to its list
Collect(rs, r) == Append(rs, r)

\* ---- Postman.deliver ----
\* mutant: a refusal ends the call as a failure
AfterSendmail_abortOnReject(rej) == IF DOMAIN rej # {} THEN "raised" ELSE "noop"

\* where deliver goes once sendmail has returned `rej`: on to conn.noop()
AfterSendmail(rej) == "noop"

\* mutant: the sender handed over as the receivers
deliver_args_toSender(envelope) ==
  <<envelope.sender, <<envelope.sender>>, to_string(envelope)>>

\* the arguments deliver calls sendmail with
deliver_args(envelope) ==
  <<envelope.sender, envelope.receivers, to_string(envelope)>>

\* rejected = conn.sendmail(envelope.sender, envelope.receivers, envelope.to_string())
\* (the transport refuses among the receivers it was handed)
sendmail(t) ==
  /\ pc[t] = "deliver"
  /\ Len(resps[t]) < Len(envelopes[t])
  /\ LET envelope == CurrentEnvelope(t)
         args == deliver_args(envelope)
     IN
     \/ \E rej \in RejectedChoices(args[2]) :
          /\ transport' = Log(Handle(t), Ev("sendmail", args, TRUE, rej))
          /\ rejected' = [rejected EXCEPT ![t] = rej]
          /\ pc' = [pc EXCEPT ![t] = AfterSendmail(rej)]
          /\ UNCHANGED exc
     \/ /\ transport' = Log(Handle(t), Ev("sendmail", args, FALSE, <<>>))
        /\ exc' = [exc EXCEPT ![t] = "sendmail"]
        /\ pc' = [pc EXCEPT ![t] = Unwind("sendmail")]
        /\ UNCHANGED rejected
  /\ UNCHANGED <<agent, connects, mode, envelopes, conn, mwi, resps, context,
                 result>>

\* return self.response_cls(conn.noop(), rejected)
noop(t) ==
  /\ pc[t] = "noop"
  /\ \/ \E status \in NoopReplies :
          /\ transport' = Log(Handle(t), Ev("noop", <<>>, TRUE, status))
          /\ resps' = [resps EXCEPT ![t] = Collect(@, response_cls(status, rejected[t]))]
          /\ pc' = [pc EXCEPT ![t] = "deliver"]
          /\ UNCHANGED exc
     \/ /\ transport' = Log(Handle(t), Ev("noop", <<>>, FALSE, <<>>))
        /\ exc' = [exc EXCEPT ![t] = "noop"]
        /\ pc' = [pc EXCEPT ![t] = Unwind("noop")]
        /\ UNCHANGED resps
  /\ UNCHANGED <<agent, connects, mode, envelopes, conn, mwi, rejected, context,
                 result>>

\* ---- Postman.send_many: the comprehension is exhausted ----
leave(t) ==
  /\ pc[t] = "deliver"
  /\ Len(resps[t]) = Len(envelopes[t])
  /\ pc' = [pc EXCEPT ![t] = "quit"]
  /\ UNCHANGED <<agent, transport, connects, locals>>

\* what the call hands to its caller: send_many the list, send its element 0
Returned(t) == IF mode[t] = "send" THEN resps[t][1] ELSE resps[t]

\* mutant: a failure of quit is swallowed
Propagated_swallowed(inflight) == inflight

\* the exception that leaves the finally block when conn.quit() raised while
\* `inflight` was propagating
Propagated(inflight) == "quit"

\* mutant: the handle is quit a second time before the scope is left
AfterQuit_closeTwice(t, e) ==
  IF \A i \in DOMAIN transport[conn[t]] : transport[conn[t]][i].op # "quit"
    THEN "quit"
    ELSE IF e = NoExc THEN "returned" ELSE "raised"

\* the end of the finally block: the call returns when no exception `e` is
\* propagating, and raises it otherwise
AfterQuit(t, e) == IF e = NoExc THEN "returned" ELSE "raised"

\* ---- Postman.connection: finally: conn.quit() ----
quit(t) ==
  /\ pc[t] = "quit"
  /\ \/ /\ transport' = Log(Handle(t), Ev("quit", <<>>, TRUE, <<>>))
        /\ UNCHANGED <<exc, context>>
     \/ /\ transport' = Log(Handle(t), Ev("quit", <<>>, FALSE, <<>>))
        /\ context' = [context EXCEPT ![t] = exc[t]]
        /\ exc' = [exc EXCEPT ![t] = Propagated(exc[t])]
  /\ pc' = [pc EXCEPT ![t] = AfterQuit(t, exc'[t])]
  /\ result' = IF pc'[t] = "returned"
                 THEN [result EXCEPT ![t] = [ok |-> TRUE, value |-> Returned(t)]]
                 ELSE result
  /\ UNCHANGED <<agent, connects, mode, envelopes, conn, mwi, resps, rejected>>

Next ==
  \/ \E m \in Mw : use(m)
  \/ \E t \in Threads, envs \in SeqsUpTo(Envelopes, MaxBatch) : send_many(t, envs)
  \/ \E t \in Threads, e \in Envelopes : send(t, e)
  \/ \E t \in Threads : connect(t)
  \/ \E t \in Threads : ehlo(t)
  \/ \E t \in Threads : middleware(t)
  \/ \E t \in Threads : yield(t)
  \/ \E t \in Threads : sendmail(t)
  \/ \E t \in Threads : noop(t)
  \/ \E t \in Threads : leave(t)
  \/ \E t \in Threads : quit(t)

Spec == Init /\ [][Next]_vars

\* ---- two callers on one Postman, no use while they run ----
ConcMiddlewares == {<<>>, <<"tls">>, <<"tls", "auth">>}
ConcBatches == {<<>>, <<Env1>>, <<Env2, Env1>>}

InitConc ==
  /\ server = "mail.example.com"
  /\ port = 587
  /\ middlewares \in ConcMiddlewares
  /\ use_call = [arg |-> NoMiddleware, ret |-> NoMiddleware]
  /\ uses = 0
  /\ transport = <<>>
  /\ connects = [t \in Threads |-> 0]
  /\ pc = [t \in Threads |-> "idle"]
  /\ mode = [t \in Threads |-> "none"]
  /\ envelopes = [t \in Threads |-> <<>>]
  /\ conn = [t \in Threads |-> NoConn]
  /\ mwi = [t \in Threads |-> 0]
  /\ resps = [t \in Threads |-> <<>>]
  /\ rejected = [t \in Threads |-> NoRejected]
  /\ exc = [t \in Threads |-> NoExc]
  /\ context = [t \in Threads |-> NoExc]
  /\ result = [t \in Threads |-> NoResult]

NextConc ==
  \/ \E t \in Threads, envs \in ConcBatches : send_many(t, envs)
  \/ \E t \in Threads, e \in Envelopes : send(t, e)
  \/ \E t \in Threads : connect(t)
  \/ \E t \in Threads : ehlo(t)
  \/ \E t \in Threads : middleware(t)
  \/ \E t \in Threads : yield(t)
  \/ \E t \in Threads : sendmail(t)
  \/ \E t \in Threads : noop(t)
  \/ \E t \in Threads : leave(t)
  \/ \E t \in Threads : quit(t)

SpecConc == InitConc /\ [][NextConc]_vars

\* ======================= properties =======================
Done(t) == pc[t] \in {"returned", "raised"}

\* the log of the handle of thread t's call
HLog(t) == IF conn[t] = NoConn THEN <<>> ELSE transport[conn[t]]

Count(l, op) == Cardinality({i \in DOMAIN l : l[i].op = op})

IsMiddleware(e) == e.op = "middleware"

MwEvents(l) == SelectSeq(l, IsMiddleware)

\* C1: on every handle that connect produced, quit is invoked exactly once
\* before the call returns or raises (and never more than once), whether the
\* scope succeeded, a middleware raised, or sendmail / noop raised mid-batch;
\* it is the last operation on the handle.
C1_CloseExactlyOnce ==
  \A t \in Threads : conn[t] # NoConn =>
    LET l == HLog(t) IN
    /\ Count(l, "quit") <= 1
    /\ Done(t) => /\ Count(l, "quit") = 1
                  /\ l[Len(l)].op = "quit"

\* a batch whose second envelope failed in sendmail has returned to the caller
C1_Witness ==
  /\ Done(1) /\ conn[1] # NoConn
  /\ Len(resps[1]) = 1
  /\ \E i \in DOMAIN HLog(1) : HLog(1)[i].op = "sendmail" /\ ~HLog(1)[i].ok
  /\ Count(HLog(1), "quit") = 1

\* C2: when an operation before quit raised in the scope, the exception the
\* caller gets is that earlier failure, also when quit raised as well.
C2_OriginalFailureReported ==
  \A t \in Threads : (pc[t] = "raised" /\ conn[t] # NoConn) =>
    \A i \in DOMAIN HLog(t) :
      (~HLog(t)[i].ok /\ HLog(t)[i].op # "quit") => exc[t] = HLog(t)[i].op

\* C3: the middleware invocations on a handle are, in order, the entries
\* 1, 2, ... of the middleware list, each completed before the next starts
\* (only the last may have raised), and when the scope yields the handle
\* every entry of the list has been invoked successfully.
C3_Ordered(t) ==
  LET m == MwEvents(HLog(t)) IN
  /\ Len(m) <= Len(middlewares)
  /\ \A i \in DOMAIN m : /\ m[i].args = <<middlewares[i]>>
                         /\ i < Len(m) => m[i].ok

C3_MiddlewareInRegistrationOrder ==
  [][\A t \in Threads :
       /\ C3_Ordered(t)'
       /\ (pc[t] = "middleware" /\ pc'[t] = "deliver") =>
            LET m == MwEvents(HLog(t)) IN
            /\ Len(m) = Len(middlewares)
            /\ \A i \in DOMAIN m : m[i].ok]_vars

\* a scope entered its body after tls, then auth
C3_Witness ==
  /\ pc[1] = "deliver"
  /\ middlewares = <<"tls", "auth">>
  /\ Len(MwEvents(HLog(1))) = 2
  /\ MwEvents(HLog(1))[1].args = <<"tls">>
  /\ MwEvents(HLog(1))[2].args = <<"auth">>

\* C4: once a middleware has raised on a handle, nothing but quit is invoked
\* on it afterwards (no later middleware, no sendmail, no noop), and the call
\* ends by raising, with the handle quit once and nothing returned.
C4_MiddlewareFailureAborts ==
  \A t \in Threads : conn[t] # NoConn =>
    LET l == HLog(t) IN
    \A i \in DOMAIN l : (l[i].op = "middleware" /\ ~l[i].ok) =>
      /\ \A j \in DOMAIN l : j > i => l[j].op = "quit"
      /\ \A j \in DOMAIN l : l[j].op \notin {"sendmail", "noop"}
      /\ Done(t) => /\ pc[t] = "raised"
                    /\ ~result[t].ok
                    /\ Count(l, "quit") = 1

\* the first of two middlewares raised, for a non-empty batch, and the call
\* has ended
C4_Witness ==
  /\ pc[1] = "raised"
  /\ Len(middlewares) = 2 /\ Len(envelopes[1]) > 0
  /\ Len(MwEvents(HLog(1))) = 1
  /\ ~MwEvents(HLog(1))[1].ok
  /\ Count(HLog(1), "quit") = 1

IsSendmail(e) == e.op = "sendmail"

IsNoop(e) == e.op = "noop"

\* what sendmail must be called with for envelope e
SendmailArgs(e) == <<e.sender, e.receivers, to_string(e)>>

\* C6: a send_many of a non-empty sequence that returned gives as many
\* responses as envelopes, and the response at index i holds the status of
\* the i-th noop and the refusals of the i-th sendmail, which was called
\* with the sender, receivers and payload of the envelope at index i.
C6_ResponsesAligned ==
  \A t \in Threads :
    (pc[t] = "returned" /\ mode[t] = "send_many" /\ Len(envelopes[t]) > 0) =>
      LET S == SelectSeq(HLog(t), IsSendmail)
          N == SelectSeq(HLog(t), IsNoop)
          r == result[t].value
      IN
      /\ Len(r) = Len(envelopes[t])
      /\ Len(S) = Len(envelopes[t])
      /\ Len(N) = Len(envelopes[t])
      /\ \A i \in DOMAIN r : /\ S[i].args = SendmailArgs(envelopes[t][i])
                             /\ r[i].status = N[i].ret
                             /\ r[i].rejected = S[i].ret

\* two different envelopes got different refusals and different statuses
C6_Witness ==
  /\ pc[1] = "returned" /\ mode[1] = "send_many"
  /\ envelopes[1] = <<Env2, Env1>>
  /\ result[1].value[1].status # result[1].value[2].status
  /\ DOMAIN result[1].value[1].rejected = {"d@y.com"}
  /\ DOMAIN result[1].value[2].rejected = {}

\* C7: a call connects exactly once; the one handle it got carries all its
\* sendmail and noop calls; the sendmail calls are made for the envelopes in
\* input order, each followed by its noop before the next sendmail.
C7_OneConnectionInOrder ==
  /\ Len(transport) = Cardinality({t \in Threads : conn[t] # NoConn})
  /\ \A t \in Threads :
       /\ connects[t] <= 1
       /\ pc[t] \notin {"absent", "idle", "connect"} => connects[t] = 1
       /\ conn[t] # NoConn =>
            LET l == HLog(t)
                S == SelectSeq(l, IsSendmail)
                N == SelectSeq(l, IsNoop)
            IN
            /\ Count(l, "connect") = 1 /\ l[1].op = "connect"
            /\ Len(S) <= Len(envelopes[t])
            /\ Len(N) <= Len(S) /\ Len(S) <= Len(N) + 1
            /\ \A i \in DOMAIN S : S[i].args = SendmailArgs(envelopes[t][i])
            /\ Done(t) /\ exc[t] = NoExc => Len(N) = Len(envelopes[t])

\* a batch of two different envelopes was delivered over one connection
C7_Witness ==
  /\ pc[1] = "returned"
  /\ envelopes[1] = <<Env1, Env2>>
  /\ connects[1] = 1 /\ Len(transport) = 1
  /\ Count(HLog(1), "sendmail") = 2 /\ Count(HLog(1), "noop") = 2

\* C8: on a handle, a sendmail that returned is directly followed by noop
\* and every noop directly follows such a sendmail; when deliver has returned
\* its response holds the status of that noop and the refusals of that
\* sendmail, and the handle has not been quit.
C8_DeliverSendsThenProbes ==
  \A t \in Threads : conn[t] # NoConn =>
    LET l == HLog(t) IN
    /\ \A i \in DOMAIN l :
         /\ (l[i].op = "sendmail" /\ l[i].ok /\ i < Len(l)) => l[i + 1].op = "noop"
         /\ l[i].op = "noop" => (i > 1 /\ l[i - 1].op = "sendmail" /\ l[i - 1].ok)
    /\ pc[t] = "noop" => (l[Len(l)].op = "sendmail" /\ l[Len(l)].ok)
    /\ (pc[t] = "deliver" /\ Len(resps[t]) > 0) =>
         /\ Count(l, "quit") = 0
         /\ l[Len(l)].op = "noop" /\ l[Len(l)].ok
         /\ resps[t][Len(resps[t])].status = l[Len(l)].ret
         /\ resps[t][Len(resps[t])].rejected = l[Len(l) - 1].ret

\* deliver has returned a response with a refusal and the scope is still open
C8_Witness ==
  /\ pc[1] = "deliver" /\ Len(resps[1]) = 1
  /\ DOMAIN resps[1][1].rejected = {"b@y.com"}
  /\ resps[1][1].status = <<421, "Closing">>
  /\ Count(HLog(1), "quit") = 0

Occurrences(s, x) == Cardinality({i \in DOMAIN s : s[i] = x})

\* C9: every call of use returns its argument and makes the list the old
\* list with the argument appended (one entry more, the earlier ones as they
\* were, also when the value is already in the list); a scope that yields
\* its handle has invoked each value as many times as the list holds it.
C9_UseAppendsAndReturns ==
  [][/\ uses' # uses =>
          /\ use_call'.ret = use_call'.arg
          /\ Len(middlewares') = Len(middlewares) + 1
          /\ SubSeq(middlewares', 1, Len(middlewares)) = middlewares
          /\ middlewares'[Len(middlewares')] = use_call'.arg
     /\ uses' = uses => middlewares' = middlewares
     /\ \A t \in Threads : (pc[t] = "middleware" /\ pc'[t] = "deliver") =>
          \A m \in Mw :
            Cardinality({i \in DOMAIN HLog(t) :
                           HLog(t)[i].op = "middleware" /\ HLog(t)[i].args = <<m>>})
              = Occurrences(middlewares, m)]_vars

\* tls was registered twice and a later scope invoked it twice
C9_Witness ==
  /\ uses = 2 /\ middlewares = <<"tls", "tls">>
  /\ use_call = [arg |-> "tls", ret |-> "tls"]
  /\ pc[1] = "deliver"
  /\ Len(MwEvents(HLog(1))) = 2

\* the response returned for the envelope at index i
ResultAt(t, i) == IF mode[t] = "send" THEN result[t].value ELSE result[t].value[i]

\* C10: an exception is in flight or raised only if some operation on the
\* handle raised; a call that ended with no operation having raised has
\* returned, with sendmail called once for every envelope and each response
\* holding exactly the refusals its sendmail returned, whatever they were.
C10_RejectionIsNotAnError ==
  \A t \in Threads : conn[t] # NoConn =>
    LET l == HLog(t)
        S == SelectSeq(l, IsSendmail)
    IN
    /\ (exc[t] # NoExc \/ pc[t] = "raised") => \E i \in DOMAIN l : ~l[i].ok
    /\ (Done(t) /\ \A i \in DOMAIN l : l[i].ok) =>
         /\ pc[t] = "returned" /\ result[t].ok
         /\ Len(S) = Len(envelopes[t])
         /\ \A i \in DOMAIN S : ResultAt(t, i).rejected = S[i].ret

\* every receiver of the first envelope was refused, the second envelope was
\* delivered all the same and the call returned both responses
C10_Witness ==
  /\ pc[1] = "returned" /\ mode[1] = "send_many"
  /\ envelopes[1] = <<Env2, Env2>>
  /\ DOMAIN result[1].value[1].rejected = Range(Env2.receivers)
  /\ DOMAIN result[1].value[2].rejected = {"b@y.com"}
  /\ Count(HLog(1), "sendmail") = 2

\* C11: the keys of the refusals in every response, while the list is being
\* built and in the value returned, are receivers of the envelope at the
\* response's index.
C11_RejectedWithinReceivers ==
  \A t \in Threads :
    /\ \A i \in DOMAIN resps[t] :
         DOMAIN resps[t][i].rejected \subseteq Range(envelopes[t][i].receivers)
    /\ pc[t] = "returned" =>
         \A i \in DOMAIN envelopes[t] :
           DOMAIN ResultAt(t, i).rejected \subseteq Range(envelopes[t][i].receivers)

\* the second envelope has a receiver the first has not, it was refused and
\* the call returned
C11_Witness ==
  /\ pc[1] = "returned" /\ mode[1] = "send_many"
  /\ envelopes[1] = <<Env1, Env2>>
  /\ DOMAIN result[1].value[1].rejected = {"b@y.com"}
  /\ DOMAIN result[1].value[2].rejected = {"d@y.com"}

SameOutcome(t, u) ==
  /\ pc[t] = pc[u] /\ exc[t] = exc[u] /\ context[t] = context[u]
  /\ pc[t] = "returned" => result[u].value = <<result[t].value>>

\* C13: a send call works on the one-element list of its envelope: on a
\* handle of its own it makes at most one sendmail (with that envelope's
\* sender, receivers and payload) and one noop; when it returns, its log is
\* connect, ehlo, the middlewares, sendmail, noop, quit and its value is the
\* response of that sendmail and noop; and whenever a send_many of the same
\* one-element list met the same transport behaviour, both calls ended the
\* same way, send's value being the sole element of send_many's.
C13_SendIsSendManyOfOne ==
  \A t \in Threads : mode[t] = "send" =>
    /\ Len(envelopes[t]) = 1
    /\ connects[t] <= 1
    /\ \A u \in Threads \ {t} : conn[u] # NoConn => conn[u] # conn[t]
    /\ conn[t] # NoConn =>
         LET l == HLog(t)
             n == Len(l)
         IN
         /\ Count(l, "sendmail") <= 1 /\ Count(l, "noop") <= 1
         /\ \A i \in DOMAIN l :
              l[i].op = "sendmail" => l[i].args = SendmailArgs(envelopes[t][1])
         /\ pc[t] = "returned" =>
              /\ n = Len(MwEvents(l)) + 5
              /\ l[1].op = "connect" /\ l[2].op = "ehlo"
              /\ l[n - 2].op = "sendmail" /\ l[n - 1].op = "noop" /\ l[n].op = "quit"
              /\ result[t].value = [status |-> l[n - 1].ret, rejected |-> l[n - 2].ret]
    /\ \A u \in Threads :
         (/\ mode[u] = "send_many" /\ envelopes[u] = envelopes[t]
          /\ Done(t) /\ Done(u)
          /\ (conn[t] = NoConn) = (conn[u] = NoConn)
          /\ conn[t] # NoConn => HLog(t) = HLog(u))
         => SameOutcome(t, u)

\* send(Env1) and send_many([Env1]) both returned after the same transport
\* behaviour, each on its own handle
C13_Witness ==
  /\ mode[1] = "send" /\ mode[2] = "send_many"
  /\ envelopes[2] = <<Env1>> /\ envelopes[1] = <<Env1>>
  /\ pc[1] = "returned" /\ pc[2] = "returned"
  /\ conn[1] # conn[2]
  /\ HLog(1) = HLog(2)
  /\ DOMAIN result[1].value.rejected = {"b@y.com"}
  /\ Len(middlewares) = 2

\* the exception a finished call must have raised, given the log of its handle
LastFailed(l) ==
  LET F == {i \in DOMAIN l : ~l[i].ok} IN
  l[CHOOSE i \in F : \A j \in F : j <= i].op

\* C15: with two calls interleaved, each connects once and gets a handle of
\* its own; the log of a call's handle holds that call's operations only
\* (connect, ehlo, a prefix of the middleware list, sendmail and noop in turn
\* for a prefix of the call's own envelopes, as many noops as the call has
\* responses, then quit); and a finished call ended as its own handle's log
\* alone dictates: raised with the last failure of its log, or returned with
\* one response per envelope built from its own sendmail and noop results.
C15_CallsAreIndependent ==
  /\ Len(transport) = Cardinality({t \in Threads : conn[t] # NoConn})
  /\ \A t \in Threads :
       /\ connects[t] <= 1
       /\ \A u \in Threads \ {t} : conn[t] # NoConn => conn[u] # conn[t]
       /\ (Done(t) /\ conn[t] = NoConn) => (pc[t] = "raised" /\ exc[t] = "connect")
       /\ conn[t] # NoConn =>
            LET l == HLog(t)
                M == MwEvents(l)
                S == SelectSeq(l, IsSendmail)
                N == SelectSeq(l, IsNoop)
                okN == SelectSeq(N, LAMBDA e : e.ok)
            IN
            /\ l[1].op = "connect"
            /\ Len(l) = 1 + Count(l, "ehlo") + Len(M) + Len(S) + Len(N) + Count(l, "quit")
            /\ Count(l, "ehlo") <= 1 /\ Count(l, "quit") <= 1
            /\ Len(M) <= Len(middlewares)
            /\ \A i \in DOMAIN M : M[i].args = <<middlewares[i]>>
            /\ Len(S) <= Len(envelopes[t])
            /\ \A i \in DOMAIN S : S[i].args = SendmailArgs(envelopes[t][i])
            /\ Len(okN) = Len(resps[t])
            /\ Len(N) <= Len(S) /\ Len(S) <= Len(N) + 1
            /\ Done(t) =>
                 IF \A i \in DOMAIN l : l[i].ok
                   THEN /\ pc[t] = "returned" /\ result[t].ok
                        /\ Len(S) = Len(envelopes[t])
                        /\ \A i \in DOMAIN S :
                             ResultAt(t, i) = [status |-> N[i].ret, rejected |-> S[i].ret]
                   ELSE /\ pc[t] = "raised" /\ ~result[t].ok
                        /\ exc[t] = LastFailed(l)

\* the call that connected second has returned two responses while the call
\* that connected first is still between its sendmail and its noop
C15_Witness ==
  /\ conn[1] = 2 /\ conn[2] = 1
  /\ pc[1] = "returned" /\ mode[1] = "send_many" /\ Len(result[1].value) = 2
  /\ pc[2] = "noop" /\ mode[2] = "send"
  /\ Len(middlewares) = 2

\* what the log of a handle holds once a scope has set it up: connect, ehlo
\* and one successful invocation of each entry of the middleware list, in order
SetUp(l) ==
  /\ Len(l) >= 2 + Len(middlewares)
  /\ l[1].op = "connect" /\ l[1].ok
  /\ l[2].op = "ehlo" /\ l[2].ok
  /\ \A i \in 1..Len(middlewares) :
       /\ l[2 + i].op = "middleware" /\ l[2 + i].ok
       /\ l[2 + i].args = <<middlewares[i]>>

EmptyBatch(t) == mode[t] = "send_many" /\ envelopes[t] = <<>> /\ pc[t] # "idle"

\* C14: a send_many of the empty sequence connects all the same: it never
\* calls sendmail or noop, its handle is yielded with connect, ehlo and every
\* middleware of the list done in order, and when it returns it has connected
\* once, quit once as the last operation, and its value is the empty list.
C14_EmptyBatchStillConnects ==
  [][\A t \in Threads : EmptyBatch(t)' =>
       /\ conn'[t] # NoConn =>
            (Count(HLog(t)', "sendmail") = 0 /\ Count(HLog(t)', "noop") = 0)
       /\ (pc[t] = "middleware" /\ pc'[t] = "deliver") =>
            (SetUp(HLog(t)) /\ Len(HLog(t)) = 2 + Len(middlewares))
       /\ pc'[t] = "returned" =>
            /\ connects'[t] = 1 /\ conn'[t] # NoConn
            /\ result'[t].ok /\ result'[t].value = <<>>
            /\ Count(HLog(t)', "quit") = 1
            /\ HLog(t)'[Len(HLog(t)')].op = "quit"
            /\ Len(HLog(t)') = 3 + Len(MwEvents(HLog(t)'))
            /\ \A i \in DOMAIN HLog(t)' : HLog(t)'[i].ok]_vars

\* an empty send_many returned after connect, ehlo, tls, auth and quit
C14_Witness ==
  /\ pc[1] = "returned" /\ mode[1] = "send_many" /\ envelopes[1] = <<>>
  /\ result[1].value = <<>>
  /\ middlewares = <<"tls", "auth">>
  /\ Len(HLog(1)) = 5 /\ Count(HLog(1), "quit") = 1

\* C16: a call connects at most once and calls ehlo at most once; the i-th
\* middleware invocation is that of entry i and the i-th sendmail that of
\* envelope i, so no entry and no envelope is gone through twice, and noop
\* is called at most once per sendmail; after an operation has raised only
\* quit follows, and the call ends by raising, without a result.
C16_NoRetries ==
  \A t \in Threads :
    /\ connects[t] <= 1
    /\ (Done(t) /\ conn[t] = NoConn) =>
         (pc[t] = "raised" /\ exc[t] = "connect" /\ ~result[t].ok)
    /\ conn[t] # NoConn =>
         LET l == HLog(t)
             M == MwEvents(l)
             S == SelectSeq(l, IsSendmail)
             N == SelectSeq(l, IsNoop)
         IN
         /\ Count(l, "connect") = 1 /\ Count(l, "ehlo") <= 1
         /\ Len(M) <= Len(middlewares)
         /\ \A i \in DOMAIN M : M[i].args = <<middlewares[i]>>
         /\ Len(S) <= Len(envelopes[t])
         /\ \A i \in DOMAIN S : S[i].args = SendmailArgs(envelopes[t][i])
         /\ Len(N) <= Len(S)
         /\ \A i \in DOMAIN l : ~l[i].ok =>
              /\ \A j \in DOMAIN l : j > i => l[j].op = "quit"
              /\ Done(t) => (pc[t] = "raised" /\ ~result[t].ok)

\* the noop of the second envelope raised and the call failed, nothing redone
C16_Witness ==
  /\ pc[1] = "raised" /\ exc[1] = "noop"
  /\ Len(envelopes[1]) = 2 /\ Len(resps[1]) = 1
  /\ Count(HLog(1), "sendmail") = 2 /\ Count(HLog(1), "noop") = 2
  /\ Count(HLog(1), "ehlo") = 1

\* C17: quit is the last operation in the log of a handle: nothing is
\* invoked on it afterwards, no second quit either, and the call has then
\* ended; the value returned consists of responses (a status and refusals)
\* only, so the handle is not in it.
C17_NothingAfterClose ==
  \A t \in Threads : conn[t] # NoConn =>
    LET l == HLog(t) IN
    /\ \A i \in DOMAIN l : l[i].op = "quit" => (i = Len(l) /\ Done(t))
    /\ Count(l, "quit") <= 1
    /\ pc[t] = "returned" =>
         \A i \in DOMAIN envelopes[t] :
           DOMAIN ResultAt(t, i) = {"status", "rejected"}

\* a batch of two returned; the handle's log ends with its only quit
C17_Witness ==
  /\ pc[1] = "returned" /\ Len(envelopes[1]) = 2
  /\ Count(HLog(1), "quit") = 1
  /\ HLog(1)[Len(HLog(1))].op = "quit"
  /\ Len(middlewares) = 1

\* quit raised at the end of a scope in which nothing else raised and every
\* envelope got its response
CloseFailedAlone(t) ==
  /\ conn[t] # NoConn /\ Done(t)
  /\ Len(resps[t]) = Len(envelopes[t])
  /\ LET l == HLog(t) IN
     /\ l[Len(l)].op = "quit" /\ ~l[Len(l)].ok
     /\ \A i \in 1..(Len(l) - 1) : l[i].ok

\* C18: when quit raises after every envelope of the batch was delivered,
\* with no earlier failure, the call raises the quit failure (with nothing
\* chained to it) and returns no response, although sendmail returned for
\* every envelope.
C18_CloseFailureFailsTheCall ==
  \A t \in Threads : CloseFailedAlone(t) =>
    /\ pc[t] = "raised" /\ exc[t] = "quit" /\ context[t] = NoExc
    /\ ~result[t].ok
    /\ Count(HLog(t), "sendmail") = Len(envelopes[t])
    /\ Count(HLog(t), "noop") = Len(envelopes[t])

\* two envelopes were delivered and then quit raised
C18_Witness ==
  /\ CloseFailedAlone(1)
  /\ Len(envelopes[1]) = 2 /\ Len(resps[1]) = 2
  /\ pc[1] = "raised"

\* C19: when connect raises, the call has no handle, no handle was made for
\* it and nothing is quit; when connect returned and ehlo raised, the call
\* does not end before quit was invoked, and when it has ended quit was
\* invoked exactly once, the handle's log being connect, ehlo, quit.
C19_ConnectVersusGreetFailure ==
  \A t \in Threads :
    /\ exc[t] = "connect" =>
         /\ conn[t] = NoConn /\ pc[t] = "raised"
         /\ Len(transport) = Cardinality({u \in Threads : conn[u] # NoConn})
    /\ conn[t] # NoConn =>
         LET l == HLog(t) IN
         (Len(l) >= 2 /\ l[2].op = "ehlo" /\ ~l[2].ok) =>
           /\ ~Done(t) => (pc[t] = "quit" /\ Len(l) = 2)
           /\ Done(t) => /\ pc[t] = "raised"
                         /\ Len(l) = 3 /\ l[3].op = "quit"
                         /\ Count(l, "quit") = 1

\* ehlo raised, then quit was invoked once and raised as well
C19_Witness ==
  /\ pc[1] = "raised" /\ context[1] = "ehlo" /\ exc[1] = "quit"
  /\ Count(HLog(1), "quit") = 1 /\ Len(HLog(1)) = 3

\* every sendmail in the log comes after a successful connect and ehlo and
\* after all the middleware invocations, none of which raised
Prepared(l) ==
  \A i \in DOMAIN l : l[i].op = "sendmail" =>
    /\ i > 2
    /\ l[1].op = "connect" /\ l[1].ok
    /\ l[2].op = "ehlo" /\ l[2].ok
    /\ \A j \in DOMAIN l : l[j].op = "middleware" => (j < i /\ l[j].ok)

\* C20: a handle is yielded to the deliveries only when its log holds a
\* successful connect, ehlo and invocation of every entry of the list, in
\* order; every sendmail is made after the yield, on a handle whose log shows
\* that preparation with no failure in it; and no step of a send or
\* send_many call changes the Postman's server, port or middleware list.
C20_DeliveryOnlyWhenPrepared ==
  [][/\ \A t \in Threads :
          /\ conn'[t] # NoConn => Prepared(HLog(t)')
          /\ (pc[t] = "middleware" /\ pc'[t] = "deliver") =>
               (SetUp(HLog(t)) /\ Len(HLog(t)) = 2 + Len(middlewares))
          /\ (conn[t] # NoConn /\ Count(HLog(t)', "sendmail") > Count(HLog(t), "sendmail")) =>
               pc[t] = "deliver"
     /\ <<pc, transport, connects, locals>>' # <<pc, transport, connects, locals>> =>
          (server' = server /\ port' = port /\ middlewares' = middlewares)]_vars

\* the first sendmail was made on a handle prepared by tls and auth
C20_Witness ==
  /\ pc[1] = "noop" /\ Len(resps[1]) = 0
  /\ Count(HLog(1), "sendmail") = 1
  /\ Len(MwEvents(HLog(1))) = 2 /\ middlewares = <<"tls", "auth">>

====
